---- MODULE Spec2Model ----
(***************************************************************************)
(* Gesture hold tracker, command resolver and callback dispatcher of       *)
(* GestureController (src/gesture_recognition.py), with the callback       *)
(* registration of MiHomeControlApp (src/main_app.py).                     *)
(*                                                                         *)
(* Time is counted in whole seconds; time.time() is the variable now.      *)
(***************************************************************************)
EXTENDS Integers, Sequences, FiniteSets, TLC

VARIABLES
    last_gesture,        \* GestureController.last_gesture
    gesture_start_time,  \* GestureController.gesture_start_time
    gesture_hold_duration, \* GestureController.gesture_hold_duration
    executed_gestures,   \* GestureController.executed_gestures
    gesture_callbacks,   \* GestureController.gesture_callbacks (key -> callback)
    now,                 \* the clock read by time.time()
    tick,                \* what the last process_frame observed and did
    run,                 \* history of the current run of equal observed labels
    call,                \* the last direct call of _execute_gesture since the
                         \* registry was last written (SpecExec)
    classified,          \* the last call of classify_gesture (SpecClassify)
    registered,          \* the calls of register_gesture_callback so far (SpecRegistry)
    running,             \* GestureController.running
    cap,                 \* GestureController.cap: 0 for None, else the number of a capture
    captures,            \* the cv2.VideoCapture objects created so far, by number
    loops,               \* the threads started on _display_loop, each with its position
    host,                \* the host thread: its position inside start() or stop()
    app,                 \* MiHomeControlApp: gesture_controller, gesture_enabled and
                         \* the text of gesture_status_label (SpecApp)
    returned,            \* what the last call of start() gave its caller
    light,               \* a LightDevice: its cached brightness and its last call
    main                 \* main of gesture_recognition.py: the position of its loop

vars == <<last_gesture, gesture_start_time, gesture_hold_duration,
          executed_gestures, gesture_callbacks,
          now, tick, run, call, classified, registered,
          running, cap, captures, loops, host, app, returned, light, main>>

\* the session: the flag, the capture and the threads of start, stop and
\* _display_loop
loopvars == <<running, cap, captures, loops, host, app, returned, light, main>>

\* the state outside the controller and the application
outvars == <<light, main>>

\* the state of GestureController's tracker, registry and their history
ctlvars == <<last_gesture, gesture_start_time, gesture_hold_duration,
             executed_gestures, gesture_callbacks,
             now, tick, run, call>>

\* what the tracker and the calls of _execute_gesture use and leave
trackvars == <<last_gesture, gesture_start_time, gesture_hold_duration,
               executed_gestures, now, tick, run>>

-----------------------------------------------------------------------------
(* Bounds *)

\* the frames arrive within Horizon seconds of the controller's construction
Horizon == 4

\* the host's calls of register_gesture_callback that are kept as history
MaxRegistrations == 3

\* the cv2.VideoCapture objects that calls of start() create
MaxCaptures == 2

\* MediaPipeHandDetector(max_num_hands=2)
MaxHands == 2

-----------------------------------------------------------------------------
(* GestureType, hands, command tables *)

NONE == "none"
FIST == "fist"
OPEN_PALM == "open_palm"
PEACE == "peace"
THUMBS_UP == "thumbs_up"
POINTING_UP == "pointing_up"
THREE_FINGERS == "three_fingers"
TWO_FINGERS == "two_fingers"
ONE_FINGER == "one_finger"

GestureType == {NONE, FIST, OPEN_PALM, PEACE, THUMBS_UP, POINTING_UP,
                THREE_FINGERS, TWO_FINGERS, ONE_FINGER}

HandSides == {"left", "right"}
HandTypes == HandSides \cup {"unknown"}

GestureCommand(g, a) == [gesture_type |-> g, action |-> a]

NoCommand == [gesture_type |-> NONE, action |-> "None"]

gesture_commands ==
    (FIST :> GestureCommand(FIST, "close_all")) @@
    (OPEN_PALM :> GestureCommand(OPEN_PALM, "open_all")) @@
    (PEACE :> GestureCommand(PEACE, "toggle_device")) @@
    (THUMBS_UP :> GestureCommand(THUMBS_UP, "increase_brightness")) @@
    (POINTING_UP :> GestureCommand(POINTING_UP, "max_brightness"))

left_hand_commands ==
    (THUMBS_UP :> GestureCommand(THUMBS_UP, "decrease_brightness")) @@
    (POINTING_UP :> GestureCommand(POINTING_UP, "min_brightness")) @@
    (THREE_FINGERS :> GestureCommand(THREE_FINGERS, "decrease_color_temp")) @@
    (TWO_FINGERS :> GestureCommand(TWO_FINGERS, "set_warm_color_temp"))

right_hand_commands ==
    (THUMBS_UP :> GestureCommand(THUMBS_UP, "increase_brightness")) @@
    (POINTING_UP :> GestureCommand(POINTING_UP, "max_brightness")) @@
    (THREE_FINGERS :> GestureCommand(THREE_FINGERS, "increase_color_temp")) @@
    (TWO_FINGERS :> GestureCommand(TWO_FINGERS, "set_cool_color_temp"))

\* the seconds of line 191
DefaultHoldDuration == 2

\* line 190: self.gesture_start_time = 0
InitialStartTime == 0

\* variant: __init__ gives the hold duration the value it gives the start time
HoldDurationUnset == InitialStartTime

\* line 191: self.gesture_hold_duration = 2.0
InitialHoldDuration == DefaultHoldDuration

\* time.time() when the controller is constructed: later than the 0 that
\* __init__ stores in gesture_start_time by more than the hold duration
Epoch == DefaultHoldDuration + 1

MaxTime == Epoch + Horizon

-----------------------------------------------------------------------------
(* Callback registry *)

\* A callback is what it does when called: the action it performs and
\* whether the call raises an Exception.
Callback(a, r) == [action |-> a, raises |-> r]

NoCallback == [action |-> "None", raises |-> FALSE]

EmptyRegistry == [k \in {} |-> NoCallback]

\* dict.get(key): the value, or None when the key is absent
RegistryGet(reg, key) == IF key \in DOMAIN reg THEN reg[key] ELSE NoCallback

\* variant: a key that is already registered keeps its callback
RegistrySetDefault(reg, key, cb) ==
    [k \in DOMAIN reg \cup {key} |-> IF k \in DOMAIN reg THEN reg[k] ELSE cb]

\* self.gesture_callbacks[gesture_key] = callback
RegistrySet(reg, key, cb) ==
    [k \in DOMAIN reg \cup {key} |-> IF k = key THEN cb ELSE reg[k]]

-----------------------------------------------------------------------------
(* _execute_gesture: command resolution and callback dispatch *)

\* variant: the generic table is consulted before the hand-specific tables
ResolveGenericFirst(gesture, hand_type) ==
    IF gesture \in DOMAIN gesture_commands
        THEN gesture_commands[gesture]
    ELSE IF hand_type = "left" /\ gesture \in DOMAIN left_hand_commands
        THEN left_hand_commands[gesture]
    ELSE IF hand_type = "right" /\ gesture \in DOMAIN right_hand_commands
        THEN right_hand_commands[gesture]
    ELSE [gesture_type |-> NONE, action |-> "None"]

\* variant: the left table is consulted whichever hand is given
ResolveLeftFirst(gesture, hand_type) ==
    IF gesture \in DOMAIN left_hand_commands
        THEN left_hand_commands[gesture]
    ELSE IF hand_type = "right" /\ gesture \in DOMAIN right_hand_commands
        THEN right_hand_commands[gesture]
    ELSE IF gesture \in DOMAIN gesture_commands
        THEN gesture_commands[gesture]
    ELSE NoCommand

\* lines 436-443: hand-specific table first, then the generic table, else None
ResolveCommand(gesture, hand_type) ==
    IF hand_type = "left" /\ gesture \in DOMAIN left_hand_commands
        THEN left_hand_commands[gesture]
    ELSE IF hand_type = "right" /\ gesture \in DOMAIN right_hand_commands
        THEN right_hand_commands[gesture]
    ELSE IF gesture \in DOMAIN gesture_commands
        THEN gesture_commands[gesture]
    ELSE NoCommand

\* variant: the key is built with "." in place of "_"
GestureKeyDotted(gesture, hand_type) == hand_type \o "." \o gesture

\* line 446: gesture_key = f"{hand_type}_{gesture.value}"
GestureKey(gesture, hand_type) == hand_type \o "_" \o gesture

\* variant: the key command.action first, then the hand-and-gesture key
LookupActionFirst(reg, gesture, hand_type, command) ==
    IF RegistryGet(reg, command.action) # NoCallback
        THEN RegistryGet(reg, command.action)
        ELSE RegistryGet(reg, GestureKey(gesture, hand_type))

\* lines 447-451: the hand-and-gesture key first, then the key command.action
LookupCallback(reg, gesture, hand_type, command) ==
    IF RegistryGet(reg, GestureKey(gesture, hand_type)) # NoCallback
        THEN RegistryGet(reg, GestureKey(gesture, hand_type))
        ELSE RegistryGet(reg, command.action)

\* variant: callback() without the try/except, the error leaves _execute_gesture
InvokeCallbackUncaught(cb) ==
    [ran |-> TRUE, action |-> cb.action, logged_error |-> FALSE, escaped |-> cb.raises]

\* lines 454-458: callback() inside try/except Exception; the error is logged
\* and does not leave _execute_gesture
InvokeCallback(cb) ==
    [ran |-> TRUE, action |-> cb.action, logged_error |-> cb.raises, escaped |-> FALSE]

NotInvoked == [ran |-> FALSE, action |-> "None", logged_error |-> FALSE, escaped |-> FALSE]

\* variant: the callback of the hand-and-gesture key and the callback of the
\* key command.action are both called when both are registered
CallbacksOfBothKeys(reg, gesture, hand_type, command) ==
    SelectSeq(<<RegistryGet(reg, GestureKey(gesture, hand_type)),
                RegistryGet(reg, command.action)>>,
              LAMBDA cb : cb # NoCallback)

\* lines 447-456: the callbacks that are called, in order: the one callback
\* that the lookup found, when it found one
CallbacksCalled(reg, gesture, hand_type, command) ==
    LET callback == LookupCallback(reg, gesture, hand_type, command)
    IN  IF callback # NoCallback THEN <<callback>> ELSE <<>>

NoExec ==
    [called |-> FALSE, gesture |-> NONE, hand_type |-> "unknown", command |-> NoCommand,
     calls |-> <<>>, callback |-> NoCallback, result |-> NotInvoked]

\* _execute_gesture(gesture, hand_type): calls is what was called, callback
\* the first of them and result the outcome of its call
ExecuteGesture(reg, gesture, hand_type) ==
    LET command == ResolveCommand(gesture, hand_type)
        calls == IF command # NoCommand
                     THEN CallbacksCalled(reg, gesture, hand_type, command)
                     ELSE <<>>
        callback == IF calls # <<>> THEN Head(calls) ELSE NoCallback
    IN  [called |-> TRUE, gesture |-> gesture, hand_type |-> hand_type,
         command |-> command, calls |-> calls, callback |-> callback,
         result |-> IF callback # NoCallback THEN InvokeCallback(callback) ELSE NotInvoked]

-----------------------------------------------------------------------------
(* _handle_gesture_logic *)

\* line 418: gesture != GestureType.NONE and gesture in self.gesture_commands
Tracked(gesture) == gesture # NONE /\ gesture \in DOMAIN gesture_commands

\* variant: a change is only seen when the previous label was NONE
GestureChangedFromIdle(gesture, lg) == gesture # lg /\ lg = NONE

\* line 419: gesture != self.last_gesture
GestureChanged(gesture, lg) == gesture # lg

\* variant: the start time is left as it was
KeepStartTime(current_time, start) == start

\* line 420: self.gesture_start_time = current_time
RestartTime(current_time, start) == current_time

\* variant: the executed record is not cleared
KeepExecuted(executed, gesture) == executed

\* lines 423-424: drop the new gesture from the executed record
ClearExecuted(executed, gesture) == executed \ {gesture}

\* variant: the hold counts as elapsed from the tick after the change
HoldStarted(current_time, start) == current_time - start >= 0

\* variant: the comparison is strict
HoldExceeded(current_time, start) == current_time - start > gesture_hold_duration

\* line 425: current_time - self.gesture_start_time >= self.gesture_hold_duration
HoldElapsed(current_time, start) == current_time - start >= gesture_hold_duration

\* line 427: gesture not in self.executed_gestures
NotYetExecuted(executed, gesture) == gesture \notin executed

\* variant: the gesture is never recorded as executed
NeverMarkExecuted(executed, gesture, exec) == executed

\* variant: the gesture is recorded only when a callback ran
MarkExecutedIfDispatched(executed, gesture, exec) ==
    IF exec.result.ran THEN executed \cup {gesture} ELSE executed

\* line 429: self.executed_gestures.add(gesture), reached when line 428 returned
MarkExecuted(executed, gesture, exec) ==
    IF exec.result.escaped THEN executed ELSE executed \cup {gesture}

HandleGestureLogic(lg, start, executed, reg, gesture, hand_type, current_time) ==
    IF Tracked(gesture) THEN
        IF GestureChanged(gesture, lg) THEN
            [last_gesture |-> gesture,
             gesture_start_time |-> RestartTime(current_time, start),
             executed_gestures |-> ClearExecuted(executed, gesture),
             exec |-> NoExec]
        ELSE IF HoldElapsed(current_time, start) /\ NotYetExecuted(executed, gesture) THEN
            LET exec == ExecuteGesture(reg, gesture, hand_type) IN
            [last_gesture |-> lg,
             gesture_start_time |-> start,
             executed_gestures |-> MarkExecuted(executed, gesture, exec),
             exec |-> exec]
        ELSE
            [last_gesture |-> lg, gesture_start_time |-> start,
             executed_gestures |-> executed, exec |-> NoExec]
    ELSE
        [last_gesture |-> NONE, gesture_start_time |-> start,
         executed_gestures |-> executed, exec |-> NoExec]

\* the hold state: the three attributes that _handle_gesture_logic writes
HoldOf(lg, start, executed) ==
    [last_gesture |-> lg, gesture_start_time |-> start, executed_gestures |-> executed]

\* the calls of process_frame out of which an exception can leave it:
\* detect_hands (line 382), the callback when its error is not an Exception
\* (line 456) and _draw_interface (line 409)
RaisePoints == {"detect_hands", "callback", "draw_interface"}

\* variant: the exception leaves between the assignment of gesture_start_time
\* and the assignment of last_gesture
RaisedAfterStartTime(point, before, after) ==
    [before EXCEPT !.gesture_start_time = after.gesture_start_time]

\* the hold state that a call of process_frame leaves when it raises at point:
\* detect_hands comes before _handle_gesture_logic, the callback is called
\* before line 429 adds the gesture and after nothing else was written, and
\* _draw_interface comes after _handle_gesture_logic returned
RaisedAt(point, before, after) ==
    IF point = "draw_interface" THEN after ELSE before

-----------------------------------------------------------------------------
(* get_finger_positions and classify_gesture *)

\* fingers in the order of tip_ids: thumb, index, middle, ring, little
Fingers == 1..5

\* image coordinates of a finger's tip and of the joint it is compared with
Coords == {0, 1}

Finger(tip, joint) == [tip |-> tip, joint |-> joint]

\* the thumb counts as extended when its tip lies to the right of the joint
\* before it (x), the other fingers when their tip lies above their PIP joint (y)
get_finger_positions(landmarks) ==
    [i \in Fingers |->
        IF i = 1
        THEN IF landmarks[i].tip > landmarks[i].joint THEN 1 ELSE 0
        ELSE IF landmarks[i].tip < landmarks[i].joint THEN 1 ELSE 0]

\* sum(fingers)
FingersUp(fingers) ==
    fingers[1] + fingers[2] + fingers[3] + fingers[4] + fingers[5]

\* variant: three or more extended fingers are all read as three
ClassifyThreeOrMore(fingers) ==
    LET fingers_up == FingersUp(fingers)
    IN  IF fingers_up = 0 THEN FIST
        ELSE IF fingers_up = 5 THEN OPEN_PALM
        ELSE IF fingers_up = 1
             THEN IF fingers[2] = 1 THEN POINTING_UP
                  ELSE IF fingers[1] = 1 THEN THUMBS_UP
                  ELSE ONE_FINGER
        ELSE IF fingers_up = 2
             THEN IF fingers[2] = 1 /\ fingers[3] = 1 THEN PEACE ELSE TWO_FINGERS
        ELSE IF fingers_up >= 3 THEN THREE_FINGERS
        ELSE NONE

\* the if/elif chain of classify_gesture on the finger vector (fingers[0] of
\* the code is fingers[1] here)
Classify(fingers) ==
    LET fingers_up == FingersUp(fingers)
    IN  IF fingers_up = 0 THEN FIST
        ELSE IF fingers_up = 5 THEN OPEN_PALM
        ELSE IF fingers_up = 1
             THEN IF fingers[2] = 1 THEN POINTING_UP
                  ELSE IF fingers[1] = 1 THEN THUMBS_UP
                  ELSE ONE_FINGER
        ELSE IF fingers_up = 2
             THEN IF fingers[2] = 1 /\ fingers[3] = 1 THEN PEACE ELSE TWO_FINGERS
        ELSE IF fingers_up = 3 THEN THREE_FINGERS
        ELSE IF fingers_up = 4 THEN NONE
        ELSE NONE

\* a hand with every finger folded, as first seen by the classifier
RestingHand == [i \in Fingers |-> Finger(0, 0)]

NotClassified ==
    [called |-> FALSE, landmarks |-> RestingHand,
     fingers |-> [i \in Fingers |-> 0], gesture |-> NONE]

-----------------------------------------------------------------------------
(* process_frame: the hand whose gesture is fed to the hold tracker *)

\* A detected hand: its handedness and the label classify_gesture gives it
Hand(side, gesture) == [side |-> side, gesture |-> gesture]

Hands == {Hand(s, g) : s \in HandSides, g \in GestureType}

Frames == UNION {[1..n -> Hands] : n \in 0..MaxHands}

\* The frames with at most one hand: they already produce every pair
\* (current_gesture, hand_type) that process_frame can pass to the tracker
OneHandFrames == {<<>>} \cup {<<h>> : h \in Hands}

\* variant: the loop visits every hand, the last gesturing one is kept
LastGesturing(hands) ==
    {i \in 1..Len(hands) :
        /\ hands[i].gesture # NONE
        /\ \A j \in (i + 1)..Len(hands) : hands[j].gesture = NONE}

\* lines 391-403: the loop leaves at the first hand whose gesture is not NONE
FirstGesturing(hands) ==
    {i \in 1..Len(hands) :
        /\ hands[i].gesture # NONE
        /\ \A j \in 1..(i - 1) : hands[j].gesture = NONE}

\* lines 383, 401-402
CurrentGesture(hands) ==
    IF FirstGesturing(hands) = {} THEN NONE
    ELSE hands[CHOOSE i \in FirstGesturing(hands) : TRUE].gesture

\* lines 384, 395-396: hand_type is assigned for every hand the loop visits
HandType(hands) ==
    IF Len(hands) = 0 THEN "unknown"
    ELSE IF FirstGesturing(hands) = {} THEN hands[Len(hands)].side
    ELSE hands[CHOOSE i \in FirstGesturing(hands) : TRUE].side

-----------------------------------------------------------------------------
(* MiHomeControlApp._register_gesture_callbacks *)

\* create_device_callback(action): the body runs inside try/except Exception
\* (main_app.py lines 441, 514), so the call never raises
DeviceCallback(action) == Callback(action, FALSE)

\* iteration order of the command tables (dict insertion order)
GenericOrder == <<FIST, OPEN_PALM, PEACE, THUMBS_UP, POINTING_UP>>
LeftOrder == <<THUMBS_UP, POINTING_UP, THREE_FINGERS, TWO_FINGERS>>
RightOrder == <<THUMBS_UP, POINTING_UP, THREE_FINGERS, TWO_FINGERS>>

Registration(key, cb) == [key |-> key, callback |-> cb]

RECURSIVE RegisterAll(_, _)
RegisterAll(reg, regs) ==
    IF regs = <<>> THEN reg
    ELSE RegisterAll(RegistrySet(reg, Head(regs).key, Head(regs).callback), Tail(regs))

\* lines 522-533: the hand-specific tables under "left_<gesture>" / "right_<gesture>"
HandRegistrations(hand, order, table) ==
    [i \in 1..Len(order) |->
        Registration(hand \o "_" \o order[i], DeviceCallback(table[order[i]].action))]

\* variant: the generic table for each hand without the skip of lines 539-541
GenericHandRegistrationsUnskipped(hand, table) ==
    [i \in 1..Len(GenericOrder) |->
        Registration(hand \o "_" \o GenericOrder[i],
                     DeviceCallback(gesture_commands[GenericOrder[i]].action))]

\* lines 536-545: the generic table for each hand, skipping the gestures of
\* that hand's own table
GenericHandRegistrations(hand, table) ==
    LET Kept(g) == g \notin DOMAIN table
        kept == SelectSeq(GenericOrder, Kept)
    IN  [i \in 1..Len(kept) |->
            Registration(hand \o "_" \o kept[i],
                         DeviceCallback(gesture_commands[kept[i]].action))]

\* lines 548-551: the generic table under the bare gesture value
PlainRegistrations ==
    [i \in 1..Len(GenericOrder) |->
        Registration(GenericOrder[i],
                     DeviceCallback(gesture_commands[GenericOrder[i]].action))]

AppRegistrations ==
    HandRegistrations("left", LeftOrder, left_hand_commands) \o
    HandRegistrations("right", RightOrder, right_hand_commands) \o
    GenericHandRegistrations("left", left_hand_commands) \o
    GenericHandRegistrations("right", right_hand_commands) \o
    PlainRegistrations

-----------------------------------------------------------------------------
(* main of gesture_recognition.py: its registration of callbacks *)

\* the actions that the callback of main's create_device_callback handles
\* (lines 546-569)
MainActions ==
    {"close_all", "open_all", "toggle_device", "max_brightness", "increase_brightness"}

\* create_device_callback(action) of main: it performs the action when it is
\* one of these and nothing otherwise
MainDeviceCallback(action) ==
    Callback(IF action \in MainActions THEN action ELSE "None", FALSE)

\* lines 575-580: for each hand and each entry of gesture_commands, under
\* "<hand>_<gesture>", a callback made from the action of that generic entry
MainHandRegistrations(hand) ==
    [i \in 1..Len(GenericOrder) |->
        Registration(hand \o "_" \o GenericOrder[i],
                     MainDeviceCallback(gesture_commands[GenericOrder[i]].action))]

MainRegistrations == MainHandRegistrations("left") \o MainHandRegistrations("right")

-----------------------------------------------------------------------------
(* start, stop and _display_loop: captures, threads and the host *)

\* cv2.VideoCapture(camera_index): the camera opened or it did not;
\* release() closes it
CaptureStates == {"opened", "unopened", "released"}

\* the states in which a new cv2.VideoCapture comes back
NewCaptures == {"opened", "unopened"}

\* isOpened() of the capture numbered c
IsOpened(c) == captures[c] = "opened"

\* the captures after self.cap is assigned another object: the capture it
\* held has no reference left, and a cv2.VideoCapture that is destroyed closes
\* its camera
Unreferenced(c) ==
    IF c # 0 /\ IsOpened(c) THEN [captures EXCEPT ![c] = "released"] ELSE captures

\* a thread running _display_loop: where it is, and the capture on which a
\* read of its has failed since running was last set (0 when none has)
Loop(pc, failed) == [pc |-> pc, failed |-> failed]

\* positions of a thread in _display_loop:
\*   "while"     about to evaluate self.running and self.cap (line 342)
\*   "isopened"  about to call self.cap.isOpened() (line 342)
\*   "read"      about to call self.cap.read() (line 343)
\*   "frame"     holds a frame, about to call process_frame (lines 349-352)
\*   "process"   inside process_frame
\*   "callback"  inside a callback called by _execute_gesture (line 456)
\*   "cleanup"   about to evaluate self.cap (line 363)
\*   "release"   about to call self.cap.release() (line 364)
\*   "clear"     about to set self.running = False (line 366)
\*   "done"      returned from _display_loop
\*   "crashed"   left _display_loop by an uncaught exception
LoopPositions ==
    {"while", "isopened", "read", "frame", "process", "callback", "cleanup",
     "release", "clear", "done", "crashed"}

\* the host thread is outside start() and stop(); stopped tells that its last
\* call was a stop() that has returned
HostIdle(stopped) == [pc |-> "idle", stopped |-> stopped]

\* the host thread inside start() or stop(), about to run the step pc
HostAt(pc) == [pc |-> pc, stopped |-> FALSE]

\* MiHomeControlApp's gesture state: whether gesture_controller is an object
\* (not None), gesture_enabled, what gesture_status_label shows ("not_started"
\* for its first text, "running" and "stopped" for the texts that the start
\* and stop handlers give it) and the position of the thread of the handlers
AppState(controller, enabled, status, pc) ==
    [gesture_controller |-> controller, gesture_enabled |-> enabled,
     status |-> status, pc |-> pc]

\* main_app.py lines 60, 71 and 262
NoApp == AppState(FALSE, FALSE, "not_started", "idle")

\* what start() gives its caller: "none" before its first call, "True" or
\* "False" for its return values, "raised" for an exception that leaves it
StartResults == {"none", "True", "False", "raised"}

\* variant: start() never finds the controller running
NeverRunning(flag) == FALSE

\* start(), line 297: if self.running
AlreadyRunning(flag) == flag

\* variant: start() without its try/except, the error leaves it
ErrorPropagates == "raised"

\* start(), lines 320-322: except Exception: the error is logged and start()
\* returns False
ReturnOnError == "False"

\* the calls inside start() that can raise: cv2.VideoCapture (line 300), the
\* cap.set calls (lines 306-308) and the creation and start of the thread
\* (lines 315-316)
StartRaisePoints == {"VideoCapture", "set", "thread"}

\* the thread i moved to the position pc
LoopAt(i, pc) == [loops EXCEPT ![i].pc = pc]

\* variant: a failed read is followed by the next iteration
RetryAfterFailedRead(i, c) == [loops EXCEPT ![i] = Loop("while", c)]

\* lines 344-346: if not ret: break, the thread i goes on after the loop; the
\* capture c whose read failed is remembered
BreakAfterFailedRead(i, c) == [loops EXCEPT ![i] = Loop("cleanup", c)]

-----------------------------------------------------------------------------
(* Inputs *)

\* keys and callbacks a host registers through register_gesture_callback
RegKeys == {"left_fist"}

\* a host callback whose call raises an Exception
FaultyCallbacks == {Callback("faulty", TRUE)}

\* seconds between two readings of the clock
Steps == {0, 1}

\* keys and callbacks registered before direct calls of _execute_gesture: the
\* key of a hand and a gesture, keys joining a hand and an action, and the key
\* of an action alone
ExecKeys ==
    {"left_thumbs_up", "left_decrease_brightness", "left.decrease_brightness",
     "decrease_brightness"}

ExecCallbacks == {Callback("first", FALSE), Callback("second", FALSE)}

\* frames in which two hands both show a gesture of the generic table
PairHands == {Hand(s, g) : s \in HandSides, g \in {FIST, PEACE}}

PairFrames == [1..MaxHands -> PairHands]

\* keys registered before such frames: a hand-and-gesture key and the key of
\* the action that the same trigger resolves to
PairKeys == {"left_fist", "close_all"}

\* frames of no hand or of one hand that shows a gesture of the generic table
SingleFrames == {<<>>} \cup {<<h>> : h \in PairHands}

\* NONE and the labels of the generic table gesture_commands
GenericLabels == {NONE, FIST, OPEN_PALM, PEACE, THUMBS_UP, POINTING_UP}

\* frames of no hand or of one hand that shows one of these labels
GenericFrames == {<<>>} \cup {<<Hand(s, g)>> : s \in HandSides, g \in GenericLabels}

\* keys and callbacks of the registrations kept as history
RecordedKeys == {"left_fist", "right_fist", "close_all"}

Registered(key, cb) == [key |-> key, callback |-> cb]

-----------------------------------------------------------------------------
(* History of the observed labels, kept apart from the tracker's own state *)

Min(a, b) == IF a < b THEN a ELSE b

NoRun ==
    [label |-> NONE, hand |-> "unknown", start |-> 0, first_tick |-> FALSE,
     switched |-> FALSE,
     was_executed |-> FALSE, qualified |-> 0, execs |-> 0, invoked |-> 0, first |-> NoExec]

\* the run after a tick at time t that observed label g on the hand hand_type
\* and made the _execute_gesture call exec (NoExec when it made none); executed
\* is the executed record the tick started with; hand is the hand on which a
\* run of a label other than NONE began
NextRun(r, g, hand_type, t, exec, executed) ==
    LET fresh == g # r.label
        start == IF fresh THEN t ELSE r.start
        qual == ~fresh /\ t - start >= gesture_hold_duration
        execs0 == IF fresh THEN 0 ELSE r.execs
        invoked0 == IF fresh THEN 0 ELSE r.invoked
        first0 == IF fresh THEN NoExec ELSE r.first
    IN  [label |-> g,
         hand |-> IF ~fresh THEN r.hand ELSE IF g = NONE THEN "unknown" ELSE hand_type,
         start |-> start, first_tick |-> fresh,
         switched |-> IF fresh THEN r.label # NONE /\ g # NONE ELSE r.switched,
         was_executed |-> IF fresh THEN g \in executed ELSE r.was_executed,
         qualified |-> IF fresh THEN 0
                       ELSE Min(2, r.qualified + IF qual THEN 1 ELSE 0),
         execs |-> Min(2, execs0 + IF exec.called THEN 1 ELSE 0),
         invoked |-> Min(2, invoked0 + IF exec.result.ran THEN 1 ELSE 0),
         first |-> IF first0 = NoExec THEN exec ELSE first0]

NoTick ==
    [hands |-> <<>>, gesture |-> NONE, hand_type |-> "unknown", exec |-> NoExec,
     raised |-> FALSE]

-----------------------------------------------------------------------------
(* LightDevice of device_controller.py and the loop of main *)

\* DeviceInfo.brightness of a new device (device_controller.py line 33)
InitialBrightness == 0

\* the range of set_brightness (line 115: 1 <= brightness <= 100)
MinBrightness == 1
MaxBrightness == 100

Max(a, b) == IF a > b THEN a ELSE b

\* variant: the range starts at 0
InRangeFromZero(brightness) == 0 <= brightness /\ brightness <= MaxBrightness

\* line 115: 1 <= brightness <= 100
InRange(brightness) == MinBrightness <= brightness /\ brightness <= MaxBrightness

\* variant: only the upper limit is applied
ClampAbove(value) == Min(MaxBrightness, value)

\* line 135: max(1, min(100, current_brightness + delta))
Clamp(value) == Max(MinBrightness, Min(MaxBrightness, value))

\* what send_command returns for get_prop: None when the device is not
\* connected or the sending raised ("none"), an empty list ("empty"), a list
\* whose first item is no integer ("junk") or one whose first item is value
GetReply(kind, value) == [kind |-> kind, value |-> value]

\* the brightness values that a device reports
Reported == {0, 1, 50, 100, 101}

GetReplies ==
    {GetReply(kind, 0) : kind \in {"none", "empty", "junk"}} \cup
    {GetReply("int", value) : value \in Reported}

\* what send_command returns for set_scene: None, ["ok"] or another answer
SetReplies == {"none", "ok", "error"}

\* the arguments of set_brightness and of adjust_brightness
Brightnesses == {-1, 0, 1, 50, 100, 101}
Deltas == {-100, -20, 0, 20, 100}

\* the outcome of a method of LightDevice: device_info.brightness after it,
\* the values it passed to set_brightness, the commands it passed to
\* send_command, the brightness inside its set_scene commands and its return
\* value
Outcome(brightness, passed, sent, scene, result) ==
    [brightness |-> brightness, passed |-> passed, sent |-> sent, scene |-> scene,
     result |-> result]

\* set_brightness(brightness), lines 113-127, on the cached value cached when
\* send_command returns reply
set_brightness(cached, brightness, reply) ==
    IF ~InRange(brightness)
    THEN Outcome(cached, <<brightness>>, <<>>, <<>>, FALSE)
    ELSE IF reply = "ok"
    THEN Outcome(brightness, <<brightness>>, <<"set_scene">>, <<brightness>>, TRUE)
    ELSE Outcome(cached, <<brightness>>, <<"set_scene">>, <<brightness>>, FALSE)

\* get_brightness(), lines 138-148: the integer of the first item is cached
\* and returned; None when there is no item or int() raises
get_brightness(cached, reply) ==
    IF reply.kind = "int"
    THEN [read |-> TRUE, value |-> reply.value, brightness |-> reply.value]
    ELSE [read |-> FALSE, value |-> 0, brightness |-> cached]

\* adjust_brightness(delta), lines 129-136
adjust_brightness(cached, delta, get, set) ==
    LET current == get_brightness(cached, get) IN
    IF ~current.read
    THEN Outcome(current.brightness, <<>>, <<"get_prop">>, <<>>, FALSE)
    ELSE LET o == set_brightness(current.brightness, Clamp(current.value + delta), set)
         IN  Outcome(o.brightness, o.passed, <<"get_prop">> \o o.sent, o.scene, o.result)

\* the last call of a method of the LightDevice: the method, its argument, the
\* answers of the device, device_info.brightness before it and its outcome
LightCall(method, argument, get, set, before, outcome) ==
    [method |-> method, argument |-> argument, get |-> get, set |-> set,
     before |-> before, outcome |-> outcome]

\* a LightDevice: device_info.brightness and its last call
LightState(brightness, last) == [brightness |-> brightness, last |-> last]

NoLight ==
    LightState(InitialBrightness,
               LightCall("none", 0, GetReply("none", 0), "none", InitialBrightness,
                         Outcome(InitialBrightness, <<>>, <<>>, <<>>, FALSE)))

\* main of gesture_recognition.py: where its loop is, how many frames it has
\* passed to process_frame (counted up to 2) and why the loop was left
MainState(pc, frames, left) == [pc |-> pc, frames |-> frames, left |-> left]

NoMain == MainState("read", 0, "no")

\* the heights of the frames that the camera delivers: the 720 rows that main
\* asks for (line 590), the 480 rows of a camera that keeps its default, and
\* a frame of two rows
FrameHeights == {2, 480, 720}

\* process_frame, line 411: return frame; what its caller gets is the frame
\* alone, an array that iterates over its rows
ProcessFrameResult(rows) == rows

\* a, b, ... = value with names names: it succeeds when value iterates over
\* exactly as many items
Unpacks(items, names) == items = names

-----------------------------------------------------------------------------
(* Actions *)

Init ==
    /\ last_gesture = NONE
    /\ gesture_start_time = InitialStartTime
    /\ gesture_hold_duration = InitialHoldDuration
    /\ executed_gestures = {}
    /\ gesture_callbacks = EmptyRegistry
    /\ now = Epoch
    /\ tick = NoTick
    /\ run = NoRun
    /\ call = NoExec
    /\ classified = NotClassified
    /\ registered = <<>>
    /\ running = FALSE
    /\ cap = 0
    /\ captures = <<>>
    /\ loops = <<>>
    /\ host = HostIdle(FALSE)
    /\ app = NoApp
    /\ returned = "none"
    /\ light = NoLight
    /\ main = NoMain

\* register_gesture_callback(gesture_key, callback)
RegisterGestureCallback(key, cb) ==
    /\ gesture_callbacks' = RegistrySet(gesture_callbacks, key, cb)
    /\ call' = NoExec
    /\ UNCHANGED <<trackvars, classified, registered, loopvars>>

\* register_gesture_callback(gesture_key, callback), the call kept as history
RegisterRecorded(key, cb) ==
    /\ Len(registered) < MaxRegistrations
    /\ gesture_callbacks' = RegistrySet(gesture_callbacks, key, cb)
    /\ registered' = Append(registered, Registered(key, cb))
    /\ call' = NoExec
    /\ UNCHANGED <<trackvars, classified, loopvars>>

\* MiHomeControlApp._register_gesture_callbacks
RegisterAppCallbacks ==
    /\ gesture_callbacks' = RegisterAll(gesture_callbacks, AppRegistrations)
    /\ call' = NoExec
    /\ UNCHANGED <<trackvars, classified, registered, loopvars>>

\* main of gesture_recognition.py, lines 575-580
RegisterMainCallbacks ==
    /\ gesture_callbacks' = RegisterAll(gesture_callbacks, MainRegistrations)
    /\ call' = NoExec
    /\ UNCHANGED <<trackvars, classified, registered, loopvars>>

\* what process_frame does to the controller on a frame with the detected
\* hands, dt seconds after the previous reading of the clock
ProcessFrameBody(hands, dt) ==
    /\ now + dt <= MaxTime
    /\ LET current_time == now + dt
           current_gesture == CurrentGesture(hands)
           hand_type == HandType(hands)
           h == HandleGestureLogic(last_gesture, gesture_start_time, executed_gestures,
                                   gesture_callbacks, current_gesture, hand_type,
                                   current_time)
       IN  /\ now' = current_time
           /\ last_gesture' = h.last_gesture
           /\ gesture_start_time' = h.gesture_start_time
           /\ executed_gestures' = h.executed_gestures
           /\ tick' = [hands |-> hands, gesture |-> current_gesture,
                       hand_type |-> hand_type, exec |-> h.exec,
                       raised |-> h.exec.result.escaped]
           /\ run' = NextRun(run, current_gesture, hand_type, current_time, h.exec,
                              executed_gestures)

\* process_frame called on the controller alone
ProcessFrame(hands, dt) ==
    /\ ProcessFrameBody(hands, dt)
    /\ UNCHANGED <<gesture_hold_duration, gesture_callbacks, call, classified,
                   registered, loopvars>>

\* main, lines 605-608: ret, frame = cap.read(); the loop is left when ret is
\* False
MainRead(ret) ==
    /\ main.pc = "read"
    /\ main' = IF ret THEN MainState("process", main.frames, "no")
               ELSE MainState("ended", main.frames, "read_failed")
    /\ UNCHANGED <<ctlvars, classified, registered, running, cap, captures, loops, host,
                   app, returned, light>>

\* main, line 614: process_frame is called on a frame of rows rows and its
\* return value is unpacked into two names; the ValueError of a failed
\* unpacking is caught by except Exception (line 629), which ends main
MainProcessFrame(hands, dt, rows) ==
    /\ main.pc = "process"
    /\ ProcessFrameBody(hands, dt)
    /\ main' = IF Unpacks(ProcessFrameResult(rows), 2)
               THEN MainState("show", Min(2, main.frames + 1), "no")
               ELSE MainState("ended", Min(2, main.frames + 1), "error")
    /\ UNCHANGED <<gesture_hold_duration, gesture_callbacks, call, classified,
                   registered, running, cap, captures, loops, host, app, returned, light>>

\* main, lines 617-625: imshow, the quit key, and on every hundredth frame
\* current_gesture.value, an AttributeError on the row of the frame that the
\* unpacking stored in current_gesture
MainShow(quit, hundredth) ==
    /\ main.pc = "show"
    /\ main' = IF quit THEN MainState("ended", main.frames, "quit")
               ELSE IF hundredth THEN MainState("ended", main.frames, "error")
               ELSE MainState("read", main.frames, "no")
    /\ UNCHANGED <<ctlvars, classified, registered, running, cap, captures, loops, host,
                   app, returned, light>>

\* LightDevice.set_brightness(brightness) when the device answers reply
SetBrightness(brightness, reply) ==
    /\ LET o == set_brightness(light.brightness, brightness, reply)
       IN  light' = LightState(o.brightness,
                               LightCall("set_brightness", brightness, GetReply("none", 0),
                                         reply, light.brightness, o))
    /\ UNCHANGED <<ctlvars, classified, registered, running, cap, captures, loops, host,
                   app, returned, main>>

\* LightDevice.adjust_brightness(delta) when the device answers get to
\* get_prop and set to set_scene
AdjustBrightness(delta, get, set) ==
    /\ LET o == adjust_brightness(light.brightness, delta, get, set)
       IN  light' = LightState(o.brightness,
                               LightCall("adjust_brightness", delta, get, set,
                                         light.brightness, o))
    /\ UNCHANGED <<ctlvars, classified, registered, running, cap, captures, loops, host,
                   app, returned, main>>

\* process_frame on a frame with the detected hands when the call at point
\* raises an exception that leaves process_frame
ProcessFrameRaising(hands, dt, point) ==
    /\ now + dt <= MaxTime
    /\ LET current_time == now + dt
           current_gesture == CurrentGesture(hands)
           hand_type == HandType(hands)
           h == HandleGestureLogic(last_gesture, gesture_start_time, executed_gestures,
                                   gesture_callbacks, current_gesture, hand_type,
                                   current_time)
           hold == RaisedAt(point,
                            HoldOf(last_gesture, gesture_start_time, executed_gestures),
                            HoldOf(h.last_gesture, h.gesture_start_time,
                                   h.executed_gestures))
           exec == IF point = "detect_hands" THEN NoExec
                   ELSE IF point = "callback"
                        THEN [h.exec EXCEPT !.result =
                                  InvokeCallbackUncaught(Callback(h.exec.callback.action, TRUE))]
                        ELSE h.exec
       IN  /\ point = "callback" => h.exec.calls # <<>>
           /\ now' = current_time
           /\ last_gesture' = hold.last_gesture
           /\ gesture_start_time' = hold.gesture_start_time
           /\ executed_gestures' = hold.executed_gestures
           /\ tick' = [hands |-> hands, gesture |-> current_gesture,
                       hand_type |-> hand_type, exec |-> exec, raised |-> TRUE]
           /\ run' = IF point = "detect_hands" THEN run
                     ELSE NextRun(run, current_gesture, hand_type, current_time, exec,
                                  executed_gestures)
    /\ UNCHANGED <<gesture_hold_duration, gesture_callbacks, call, classified,
                   registered, loopvars>>

\* _execute_gesture called on its own with any label and hand
CallExecuteGesture(gesture, hand_type) ==
    /\ call' = ExecuteGesture(gesture_callbacks, gesture, hand_type)
    /\ UNCHANGED <<last_gesture, gesture_start_time, gesture_hold_duration,
                   executed_gestures, gesture_callbacks, now, tick, run, classified, registered,
                   loopvars>>

\* classify_gesture(landmarks) on a hand that moved finger i since it was last
\* classified
ClassifyGesture(i, tip, joint) ==
    /\ LET landmarks == [classified.landmarks EXCEPT ![i] = Finger(tip, joint)]
           fingers == get_finger_positions(landmarks)
       IN  classified' = [called |-> TRUE, landmarks |-> landmarks,
                          fingers |-> fingers, gesture |-> Classify(fingers)]
    /\ UNCHANGED <<ctlvars, registered, loopvars>>

\* start(), lines 297-300: running is False, a capture is created and assigned
\* to self.cap in place of the one held before
StartOpen(state) ==
    /\ host.pc = "idle"
    /\ ~AlreadyRunning(running)
    /\ Len(captures) < MaxCaptures
    /\ captures' = Append(Unreferenced(cap), state)
    /\ cap' = Len(captures) + 1
    /\ host' = HostAt("start_opened")
    /\ UNCHANGED <<running, loops, ctlvars, classified, registered, app, returned,
                   outvars>>

\* start(), lines 301-318: False when the capture is not open, else running is
\* set and the thread of _display_loop is started
StartRun ==
    /\ host.pc = "start_opened"
    /\ host' = HostIdle(FALSE)
    /\ IF IsOpened(cap)
       THEN /\ running' = TRUE
            /\ loops' = Append([i \in 1..Len(loops) |-> Loop(loops[i].pc, 0)],
                                Loop("while", 0))
            /\ returned' = "True"
       ELSE /\ returned' = "False"
            /\ UNCHANGED <<running, loops>>
    /\ UNCHANGED <<cap, captures, ctlvars, classified, registered, app, outvars>>

\* start(), line 297 on a controller that is running: the test succeeds
StartRunning ==
    /\ host.pc = "idle"
    /\ AlreadyRunning(running)
    /\ host' = HostAt("start_running")
    /\ UNCHANGED <<running, cap, captures, loops, ctlvars, classified, registered, app,
                   returned, outvars>>

\* start(), line 298: return True
StartReturnTrue ==
    /\ host.pc = "start_running"
    /\ host' = HostIdle(FALSE)
    /\ returned' = "True"
    /\ UNCHANGED <<running, cap, captures, loops, ctlvars, classified, registered, app,
                   outvars>>

\* start() when the call at point raises: cv2.VideoCapture before self.cap is
\* assigned, cap.set after the capture has opened, the thread after
\* self.running = True (line 310)
StartRaising(point) ==
    /\ IF point = "VideoCapture"
       THEN /\ host.pc = "idle"
            /\ ~AlreadyRunning(running)
            /\ UNCHANGED running
       ELSE /\ host.pc = "start_opened"
            /\ IsOpened(cap)
            /\ running' = (point = "thread")
    /\ host' = HostIdle(FALSE)
    /\ returned' = ReturnOnError
    /\ UNCHANGED <<cap, captures, loops, ctlvars, classified, registered, app, outvars>>

\* stop(), line 327: self.running = False
StopFlag ==
    /\ host.pc = "idle"
    /\ running' = FALSE
    /\ host' = HostAt("stop_flagged")
    /\ UNCHANGED <<cap, captures, loops, ctlvars, classified, registered, app, returned,
                   outvars>>

\* stop(), lines 328-329: if self.cap: self.cap.release()
StopRelease ==
    /\ host.pc = "stop_flagged"
    /\ IF cap # 0
       THEN /\ captures' = [captures EXCEPT ![cap] = "released"]
            /\ host' = HostAt("stop_released")
       ELSE /\ host' = HostIdle(TRUE)
            /\ UNCHANGED captures
    /\ UNCHANGED <<running, cap, loops, ctlvars, classified, registered, app, returned,
                   outvars>>

\* stop(), lines 330-332: self.cap = None, and stop() returns
StopClear ==
    /\ host.pc = "stop_released"
    /\ cap' = 0
    /\ host' = HostIdle(TRUE)
    /\ UNCHANGED <<running, captures, loops, ctlvars, classified, registered, app, returned,
                   outvars>>

\* MiHomeControlApp.start_gesture_recognition when no controller is running:
\* a new GestureController takes the place of the one held, the callbacks are
\* registered on it and its start() is called, no other thread knowing the new
\* object yet; state is what the camera gives the capture of start().
\* gesture_enabled and the label are written when start() returned True
StartGestureRecognition(state) ==
    /\ app.pc = "idle"
    /\ host.pc = "idle"
    /\ ~(app.gesture_controller /\ running)
    /\ last_gesture' = NONE
    /\ gesture_start_time' = InitialStartTime
    /\ gesture_hold_duration' = InitialHoldDuration
    /\ executed_gestures' = {}
    /\ gesture_callbacks' = RegisterAll(EmptyRegistry, AppRegistrations)
    /\ tick' = NoTick
    /\ run' = NoRun
    /\ call' = NoExec
    /\ captures' = <<state>>
    /\ cap' = 1
    /\ host' = HostIdle(FALSE)
    /\ IF state = "opened"
       THEN /\ running' = TRUE
            /\ loops' = <<Loop("while", 0)>>
            /\ returned' = "True"
            /\ app' = AppState(TRUE, TRUE, "running", "idle")
       ELSE /\ running' = FALSE
            /\ loops' = <<>>
            /\ returned' = "False"
            /\ app' = AppState(TRUE, app.gesture_enabled, app.status, "idle")
    /\ UNCHANGED <<now, classified, registered, outvars>>

\* MiHomeControlApp.stop_gesture_recognition, line 420: with a controller its
\* stop() is called next, without one lines 424-425 follow at once
StopGestureRecognition ==
    /\ app.pc = "idle"
    /\ host.pc = "idle"
    /\ app' = IF app.gesture_controller
              THEN AppState(TRUE, app.gesture_enabled, app.status, "stop")
              ELSE AppState(FALSE, FALSE, "stopped", "idle")
    /\ UNCHANGED <<ctlvars, classified, registered, running, cap, captures, loops, host,
                   returned, outvars>>

\* lines 422-425 once stop() has returned: gesture_controller = None,
\* gesture_enabled = False and the label shows the stopped text
StopGestureRecognitionReturn ==
    /\ app.pc = "stop"
    /\ host = HostIdle(TRUE)
    /\ app' = AppState(FALSE, FALSE, "stopped", "idle")
    /\ UNCHANGED <<ctlvars, classified, registered, running, cap, captures, loops, host,
                   returned, outvars>>

\* _display_loop, line 342: while self.running and self.cap
LoopWhile(i) ==
    /\ loops[i].pc = "while"
    /\ loops' = LoopAt(i, IF running /\ cap # 0 THEN "isopened" ELSE "cleanup")
    /\ UNCHANGED <<running, cap, captures, host, ctlvars, classified, registered, app, returned,
                   outvars>>

\* _display_loop, line 342: and self.cap.isOpened(); an AttributeError when
\* self.cap is None by now
LoopIsOpened(i) ==
    /\ loops[i].pc = "isopened"
    /\ loops' = LoopAt(i, IF cap = 0 THEN "crashed"
                           ELSE IF IsOpened(cap) THEN "read" ELSE "cleanup")
    /\ UNCHANGED <<running, cap, captures, host, ctlvars, classified, registered, app, returned,
                   outvars>>

\* _display_loop, lines 343-346: ret, frame = self.cap.read(); ret tells
\* whether the camera delivered a frame, a capture that is not open never does
LoopRead(i, ret) ==
    /\ loops[i].pc = "read"
    /\ IF cap = 0 THEN loops' = LoopAt(i, "crashed")
       ELSE IF ret /\ IsOpened(cap) THEN loops' = LoopAt(i, "frame")
       ELSE loops' = BreakAfterFailedRead(i, cap)
    /\ UNCHANGED <<running, cap, captures, host, ctlvars, classified, registered, app, returned,
                   outvars>>

\* _display_loop, lines 349-352: the frame is flipped and process_frame is called
LoopEnter(i) ==
    /\ loops[i].pc = "frame"
    /\ loops' = LoopAt(i, "process")
    /\ UNCHANGED <<running, cap, captures, host, ctlvars, classified, registered, app, returned,
                   outvars>>

\* process_frame up to the call of a callback (line 456) when the tick fires
\* one, else up to its return followed by imshow and waitKey (lines 355-360);
\* the frame decides whether a callback is called, the keyboard whether the
\* loop is left
LoopProcess(i, fires, quit) ==
    /\ loops[i].pc = "process"
    /\ loops' = LoopAt(i, IF fires THEN "callback"
                           ELSE IF quit THEN "cleanup" ELSE "while")
    /\ UNCHANGED <<running, cap, captures, host, ctlvars, classified, registered, app, returned,
                   outvars>>

\* process_frame raises, in detect_hands or in _draw_interface: _display_loop
\* has no try/except, the exception ends the thread at line 352
LoopProcessRaising(i) ==
    /\ loops[i].pc = "process"
    /\ loops' = LoopAt(i, "crashed")
    /\ UNCHANGED <<running, cap, captures, host, ctlvars, classified, registered, app,
                   returned, outvars>>

\* the callback returns into process_frame, which returns; imshow and waitKey
LoopCallbackReturn(i, quit) ==
    /\ loops[i].pc = "callback"
    /\ loops' = LoopAt(i, IF quit THEN "cleanup" ELSE "while")
    /\ UNCHANGED <<running, cap, captures, host, ctlvars, classified, registered, app, returned,
                   outvars>>

\* _display_loop, line 363: if self.cap
LoopCleanupTest(i) ==
    /\ loops[i].pc = "cleanup"
    /\ loops' = LoopAt(i, IF cap # 0 THEN "release" ELSE "clear")
    /\ UNCHANGED <<running, cap, captures, host, ctlvars, classified, registered, app, returned,
                   outvars>>

\* _display_loop, line 364: self.cap.release(); an AttributeError when
\* self.cap is None by now
LoopCleanupRelease(i) ==
    /\ loops[i].pc = "release"
    /\ IF cap = 0
       THEN /\ loops' = LoopAt(i, "crashed")
            /\ UNCHANGED captures
       ELSE /\ loops' = LoopAt(i, "clear")
            /\ captures' = [captures EXCEPT ![cap] = "released"]
    /\ UNCHANGED <<running, cap, host, ctlvars, classified, registered, app, returned,
                   outvars>>

\* _display_loop, lines 365-367: self.running = False, and the thread ends
LoopCleanupClear(i) ==
    /\ loops[i].pc = "clear"
    /\ running' = FALSE
    /\ loops' = LoopAt(i, "done")
    /\ UNCHANGED <<cap, captures, host, ctlvars, classified, registered, app, returned,
                   outvars>>

Register == \E key \in RegKeys, cb \in FaultyCallbacks : RegisterGestureCallback(key, cb)

Frame == \E hands \in OneHandFrames, dt \in Steps : ProcessFrame(hands, dt)

\* frames with up to MaxHands hands, all reaching the controller at one
\* reading of the clock
FrameOfHands == \E hands \in Frames : ProcessFrame(hands, 0)

Execute == \E g \in GestureType, h \in HandTypes : CallExecuteGesture(g, h)

Next == Register \/ RegisterAppCallbacks \/ Frame

Spec == Init /\ [][Next]_vars

RegisterExec == \E key \in ExecKeys, cb \in ExecCallbacks : RegisterGestureCallback(key, cb)

NextExec == RegisterExec \/ RegisterAppCallbacks \/ Execute

SpecExec == Init /\ [][NextExec]_vars

Start ==
    \/ \E state \in NewCaptures : StartOpen(state)
    \/ StartRun
    \/ StartRunning
    \/ StartReturnTrue

Stop == StopFlag \/ StopRelease \/ StopClear

DisplayLoop(i) ==
    \/ LoopWhile(i)
    \/ LoopIsOpened(i)
    \/ \E ret \in BOOLEAN : LoopRead(i, ret)
    \/ LoopEnter(i)
    \/ \E fires \in BOOLEAN, quit \in BOOLEAN : LoopProcess(i, fires, quit)
    \/ \E quit \in BOOLEAN : LoopCallbackReturn(i, quit)
    \/ LoopCleanupTest(i)
    \/ LoopCleanupRelease(i)
    \/ LoopCleanupClear(i)

NextLoop == Start \/ Stop \/ \E i \in 1..Len(loops) : DisplayLoop(i)

SpecLoop == Init /\ [][NextLoop]_vars

\* register_gesture_callback called by the host at any moment of a session
RegisterInSession ==
    \E key \in RegKeys, cb \in ExecCallbacks : RegisterGestureCallback(key, cb)

NextSession == NextLoop \/ RegisterInSession

SpecSession == Init /\ [][NextSession]_vars

\* line 421: the steps of stop() called by stop_gesture_recognition
StopOfController == app.pc = "stop" /\ ~host.stopped /\ Stop

NextApp ==
    \/ \E state \in NewCaptures : StartGestureRecognition(state)
    \/ StopGestureRecognition
    \/ StopOfController
    \/ StopGestureRecognitionReturn
    \/ \E i \in 1..Len(loops) : DisplayLoop(i)

SpecApp == Init /\ [][NextApp]_vars

NextStart == NextLoop \/ \E point \in StartRaisePoints : StartRaising(point)

SpecStart == Init /\ [][NextStart]_vars

NextLoopFaults == NextLoop \/ \E i \in 1..Len(loops) : LoopProcessRaising(i)

SpecLoopFaults == Init /\ [][NextLoopFaults]_vars

MainLoop ==
    \/ \E ret \in BOOLEAN : MainRead(ret)
    \/ \E hands \in SingleFrames, dt \in Steps, rows \in FrameHeights :
           MainProcessFrame(hands, dt, rows)
    \/ \E quit \in BOOLEAN, hundredth \in BOOLEAN : MainShow(quit, hundredth)

NextMainLoop == RegisterMainCallbacks \/ MainLoop

SpecMainLoop == Init /\ [][NextMainLoop]_vars

NextLight ==
    \/ \E brightness \in Brightnesses, reply \in SetReplies :
           SetBrightness(brightness, reply)
    \/ \E delta \in Deltas, get \in GetReplies, set \in SetReplies :
           AdjustBrightness(delta, get, set)

SpecLight == Init /\ [][NextLight]_vars

NextRegistry == \E key \in RecordedKeys, cb \in ExecCallbacks : RegisterRecorded(key, cb)

SpecRegistry == Init /\ [][NextRegistry]_vars

RegisterPair == \E key \in PairKeys : RegisterGestureCallback(key, Callback(key, FALSE))

FrameOfPair == \E hands \in PairFrames, dt \in Steps : ProcessFrame(hands, dt)

NextPairs == RegisterPair \/ FrameOfPair

SpecPairs == Init /\ [][NextPairs]_vars

FrameOfSingle == \E hands \in SingleFrames, dt \in Steps : ProcessFrame(hands, dt)

FrameRaising ==
    \E hands \in SingleFrames, dt \in Steps, point \in RaisePoints :
        ProcessFrameRaising(hands, dt, point)

NextFaults == RegisterPair \/ FrameOfSingle \/ FrameRaising

SpecFaults == Init /\ [][NextFaults]_vars

FrameOfGeneric == \E hands \in GenericFrames, dt \in Steps : ProcessFrame(hands, dt)

NextGeneric == Register \/ FrameOfGeneric

SpecGeneric == Init /\ [][NextGeneric]_vars

NextMain == RegisterMainCallbacks \/ FrameOfGeneric

SpecMain == Init /\ [][NextMain]_vars

NextHands == FrameOfHands

SpecHands == Init /\ [][NextHands]_vars

NextClassify == \E i \in Fingers, tip \in Coords, joint \in Coords : ClassifyGesture(i, tip, joint)

SpecClassify == Init /\ [][NextClassify]_vars

-----------------------------------------------------------------------------
(* Properties of the hold tracker *)

Elapsed == now - run.start

\* a tick of the run, other than its first, at which the hold duration has elapsed
Qualifying == ~run.first_tick /\ Elapsed >= gesture_hold_duration

\* C1: no callback is invoked on a tick whose time, measured from the first
\* frame of the current run of the observed label, is below the hold duration,
\* however many frames the run has.
C1_NoCallbackBeforeHold ==
    Elapsed < gesture_hold_duration =>
        /\ ~tick.exec.called
        /\ ~tick.exec.result.ran
        /\ run.execs = 0
        /\ run.invoked = 0

\* a later frame of a FIST run on the left hand, one second into the run,
\* with a callback registered for it, and nothing has been invoked
C1_Witness ==
    /\ run.label = FIST
    /\ tick.hand_type = "left"
    /\ ~run.first_tick
    /\ Elapsed = 1
    /\ now - Epoch >= gesture_hold_duration
    /\ "left_fist" \in DOMAIN gesture_callbacks
    /\ run.invoked = 0

\* C2: during one continuous hold of a label other than NONE, _execute_gesture
\* is called at most once, whatever the number of frames after the hold
\* duration has elapsed.
C2_AtMostOncePerHold ==
    run.label # NONE => run.execs <= 1 /\ run.invoked <= 1

\* the hold has triggered and a further frame arrived after the hold duration
C2_Witness ==
    /\ run.label # NONE
    /\ run.execs = 1
    /\ run.qualified = 2
    /\ ~tick.exec.called

\* C3: for a label of the generic table, the trigger is emitted on the first
\* tick of the run, other than its first tick, at which the elapsed time is
\* >= the hold duration, and on no other tick: a run with such a tick has
\* triggered exactly once.
C3_TriggerAtFirstQualifyingTick ==
    run.label \in DOMAIN gesture_commands =>
        /\ tick.exec.called <=> run.qualified = 1
        /\ tick.exec.called => tick.exec.gesture = run.label /\ Qualifying
        /\ run.qualified >= 1 => run.execs = 1
        /\ run.qualified = 0 => run.execs = 0

\* the trigger fires on the tick at which exactly the hold duration has elapsed
C3_Witness ==
    /\ run.label \in DOMAIN gesture_commands
    /\ tick.exec.called
    /\ Elapsed = gesture_hold_duration

\* C4: a label that has an entry only in the hand-specific tables triggers
\* like any other: THREE_FINGERS held for >= the hold duration dispatches
\* decrease_color_temp on the left hand and increase_color_temp on the right,
\* TWO_FINGERS dispatches set_warm_color_temp on the left hand and
\* set_cool_color_temp on the right, each exactly once per hold.
C4_HandOnlyGesturesTrigger ==
    (run.label \in {THREE_FINGERS, TWO_FINGERS} /\ run.qualified >= 1) =>
        /\ run.execs = 1
        /\ run.first.command.action =
              IF run.label = THREE_FINGERS
                  THEN IF run.first.hand_type = "left"
                           THEN "decrease_color_temp" ELSE "increase_color_temp"
                  ELSE IF run.first.hand_type = "left"
                           THEN "set_warm_color_temp" ELSE "set_cool_color_temp"

\* C5: when the observed label changes from a gesture A to a different gesture
\* B, the hold timer restarts at the tick of the change and that tick triggers
\* nothing; a trigger in the run of B is for B and comes after B's own run has
\* lasted the hold duration, so nothing is emitted for A once B is observed.
C5_SwitchRestartsTimer ==
    run.switched =>
        /\ run.first_tick =>
              /\ ~tick.exec.called
              /\ run.execs = 0
              /\ Tracked(run.label) =>
                    last_gesture = run.label /\ gesture_start_time = now
        /\ Tracked(run.label) => gesture_start_time = run.start
        /\ tick.exec.called =>
              /\ tick.exec.gesture = run.label
              /\ Elapsed >= gesture_hold_duration
        /\ run.first.called => run.first.gesture = run.label

\* the observed label changed from one gesture to THUMBS_UP, which triggered
\* two seconds after the change
C5_Witness ==
    /\ run.switched
    /\ run.label = THUMBS_UP
    /\ tick.exec.called
    /\ Elapsed = gesture_hold_duration

-----------------------------------------------------------------------------
(* Properties of command resolution and dispatch *)

\* C7: for (label, hand) the left command is chosen when the hand is LEFT and
\* the label is in the left table, the right command when the hand is RIGHT
\* and the label is in the right table, otherwise the generic command when the
\* label is in the generic table, else none; a hand-specific entry shadows the
\* generic entry for that hand.
C7_ResolutionPrecedence ==
    call.called =>
        LET g == call.gesture
            h == call.hand_type
            inLeft == h = "left" /\ g \in {THUMBS_UP, POINTING_UP, THREE_FINGERS, TWO_FINGERS}
            inRight == h = "right" /\ g \in {THUMBS_UP, POINTING_UP, THREE_FINGERS, TWO_FINGERS}
            inGeneric == g \in {FIST, OPEN_PALM, PEACE, THUMBS_UP, POINTING_UP}
        IN  /\ inLeft => call.command = left_hand_commands[g]
            /\ inRight => call.command = right_hand_commands[g]
            /\ (~inLeft /\ ~inRight /\ inGeneric) => call.command = gesture_commands[g]
            /\ (~inLeft /\ ~inRight /\ ~inGeneric) => call.command = NoCommand
            /\ call.command # NoCommand => call.command.gesture_type = g

\* THUMBS_UP on the left hand resolves to the left command, not the generic one
C7_Witness ==
    /\ call.called
    /\ call.gesture = THUMBS_UP
    /\ call.hand_type = "left"
    /\ call.command.action = "decrease_brightness"
    /\ gesture_commands[THUMBS_UP].action = "increase_brightness"

\* the registry _register_gesture_callbacks builds on a new controller
AppRegistry == RegisterAll(EmptyRegistry, AppRegistrations)

\* a step of process_frame that called _execute_gesture
TriggerStep ==
    /\ gesture_callbacks' = gesture_callbacks
    /\ tick'.exec.called
    /\ <<tick, run, now, executed_gestures>>' # <<tick, run, now, executed_gestures>>

\* C8: with the callbacks registered as the host application does, OPEN_PALM
\* held for >= 2 seconds runs open_all for the left and for the right hand,
\* THUMBS_UP held for >= 2 seconds runs decrease_brightness on the left hand
\* and increase_brightness on the right hand.
C8_AppCallbacksDispatch ==
    /\ []((run.label \in {OPEN_PALM, THUMBS_UP} /\ run.qualified >= 1) => run.execs = 1)
    /\ [][(gesture_callbacks = AppRegistry /\ TriggerStep) =>
            LET e == tick'.exec IN
            /\ e.gesture = run'.label
            /\ e.hand_type \in HandSides
            /\ e.gesture = OPEN_PALM =>
                  e.result.ran /\ e.result.action = "open_all"
            /\ (e.gesture = THUMBS_UP /\ e.hand_type = "left") =>
                  e.result.ran /\ e.result.action = "decrease_brightness"
            /\ (e.gesture = THUMBS_UP /\ e.hand_type = "right") =>
                  e.result.ran /\ e.result.action = "increase_brightness"]_vars

\* the left hand held THUMBS_UP and the application's callback lowered the brightness
C8_Witness ==
    /\ gesture_callbacks = AppRegistry
    /\ tick.exec.called
    /\ tick.exec.gesture = THUMBS_UP
    /\ tick.exec.hand_type = "left"
    /\ tick.exec.result.action = "decrease_brightness"
    /\ Elapsed >= gesture_hold_duration

\* C9: when a trigger fires and no callback is registered under either lookup
\* key, the tick completes without raising, no callback runs and the gesture
\* is marked as executed, so later frames of the hold dispatch nothing more.
C9_MissingCallbackConsumed ==
    /\ []((run.first.called /\ run.first.callback = NoCallback) =>
            /\ run.execs = 1
            /\ run.invoked = 0
            /\ ~tick.raised
            /\ run.label \in executed_gestures)
    /\ [][(/\ TriggerStep
           /\ (tick'.exec.hand_type \o "_" \o tick'.exec.gesture)
                  \notin DOMAIN gesture_callbacks
           /\ tick'.exec.command.action \notin DOMAIN gesture_callbacks)
          => /\ tick'.exec.callback = NoCallback
             /\ ~tick'.exec.result.ran
             /\ ~tick'.raised
             /\ tick'.exec.gesture \in executed_gestures']_vars

\* a trigger found no callback and further frames of the hold arrived
C9_Witness ==
    /\ run.first.called
    /\ run.first.callback = NoCallback
    /\ run.qualified = 2
    /\ run.execs = 1
    /\ run.label \in executed_gestures

\* C10: when the callback invoked for a trigger raises, the error stays inside
\* the tick, the gesture is marked as executed and the callback is not invoked
\* again on later frames of the hold.
C10_FailingCallbackConsumed ==
    (run.first.called /\ run.first.callback.raises) =>
        /\ run.first.result.ran
        /\ run.first.result.logged_error
        /\ ~tick.raised
        /\ run.label \in executed_gestures
        /\ run.execs = 1
        /\ run.invoked = 1

\* the callback raised at the trigger and further frames of the hold arrived
C10_Witness ==
    /\ run.first.called
    /\ run.first.callback.raises
    /\ run.qualified = 2
    /\ run.invoked = 1
    /\ ~tick.raised

-----------------------------------------------------------------------------
(* Properties of the classifier and of the choice of the hand *)

\* the extended fingers of a finger vector
Extended(fingers) == {i \in Fingers : fingers[i] = 1}

\* C11: classify_gesture returns, for every one of the 32 finger vectors, the
\* label of the table: no finger FIST, five OPEN_PALM, the index alone
\* POINTING_UP, the thumb alone THUMBS_UP, another finger alone ONE_FINGER,
\* index and middle PEACE, another pair TWO_FINGERS, three THREE_FINGERS,
\* four NONE.
C11_ClassifierTable ==
    classified.called =>
        LET up == Extended(classified.fingers)
            n == Cardinality(up)
        IN  /\ classified.fingers \in [Fingers -> {0, 1}]
            /\ classified.gesture \in GestureType
            /\ n = 0 => classified.gesture = FIST
            /\ n = 5 => classified.gesture = OPEN_PALM
            /\ up = {2} => classified.gesture = POINTING_UP
            /\ up = {1} => classified.gesture = THUMBS_UP
            /\ n = 1 /\ up \cap {1, 2} = {} => classified.gesture = ONE_FINGER
            /\ up = {2, 3} => classified.gesture = PEACE
            /\ n = 2 /\ up # {2, 3} => classified.gesture = TWO_FINGERS
            /\ n = 3 => classified.gesture = THREE_FINGERS
            /\ n = 4 => classified.gesture = NONE

\* four extended fingers, the thumb folded, were classified as NONE
C11_Witness ==
    /\ classified.called
    /\ Extended(classified.fingers) = {2, 3, 4, 5}
    /\ classified.gesture = NONE

\* C12: in a frame with several hands the tracker is fed the gesture and the
\* side of the first hand, in the detector's order, whose gesture is not NONE;
\* the hands after it are ignored, so the tracker follows one label at most.
C12_FirstGesturingHandWins ==
    /\ \A i \in 1..Len(tick.hands) :
          (/\ tick.hands[i].gesture # NONE
           /\ \A j \in 1..(i - 1) : tick.hands[j].gesture = NONE)
          => /\ tick.gesture = tick.hands[i].gesture
             /\ tick.hand_type = tick.hands[i].side
    /\ last_gesture \in {NONE, tick.gesture}

\* a left hand showing PEACE came before a right hand showing FIST: the tracker
\* follows PEACE of the left hand
C12_Witness ==
    /\ tick.hands = <<Hand("left", PEACE), Hand("right", FIST)>>
    /\ tick.gesture = PEACE
    /\ tick.hand_type = "left"
    /\ last_gesture = PEACE

\* C13: when no hand of the frame has a gesture other than NONE, hands that
\* were detected but classified NONE included, the tick is processed with the
\* gesture NONE and the hand "unknown".
C13_NoGestureUnknownHand ==
    (\A i \in 1..Len(tick.hands) : tick.hands[i].gesture = NONE)
        => tick.gesture = NONE /\ tick.hand_type = "unknown"

\* the command that the table of the hand h holds for the label g, the
\* generic one when that table has none
HandCommand(g, h) ==
    IF h = "left" /\ g \in DOMAIN left_hand_commands THEN left_hand_commands[g]
    ELSE IF h = "right" /\ g \in DOMAIN right_hand_commands THEN right_hand_commands[g]
    ELSE gesture_commands[g]

\* the run of a tracked label began on one hand and this tick saw the other
HandSwitched ==
    /\ Tracked(run.label)
    /\ tick.hand_type # run.hand

\* C14: when the same label is seen first on one hand and then on the other,
\* the hold timer still counts from the run's first frame, and the trigger
\* emitted when the hold duration has elapsed carries the hand of the firing
\* tick: the command comes from that hand's table, not from the table of the
\* hand that began the hold.
C14_HandSwitchKeepsTimer ==
    HandSwitched =>
        /\ last_gesture = run.label
        /\ gesture_start_time = run.start
        /\ (Qualifying /\ run.qualified = 1 /\ ~run.was_executed) => tick.exec.called
        /\ tick.exec.called =>
              /\ tick.exec.gesture = run.label
              /\ tick.exec.hand_type = tick.hand_type
              /\ tick.exec.command = HandCommand(run.label, tick.hand_type)

\* THUMBS_UP was first shown by the left hand and was being shown by the right
\* hand when the hold elapsed: the command is the right hand's
C14_Witness ==
    /\ HandSwitched
    /\ run.label = THUMBS_UP
    /\ run.hand = "left"
    /\ tick.hand_type = "right"
    /\ tick.exec.called
    /\ tick.exec.command.action = "increase_brightness"
    /\ left_hand_commands[THUMBS_UP].action = "decrease_brightness"

-----------------------------------------------------------------------------
(* Properties of the registry and of the callback lookup *)

\* the positions in the history at which key was registered
RegisteredAt(key) == {i \in 1..Len(registered) : registered[i].key = key}

\* C17: after any sequence of register_gesture_callback calls the registry
\* maps every key to the callback of the last call made with that key; a call
\* leaves the callbacks of all other keys as they were, and a key that was
\* never registered has no callback.
C17_LastRegistrationWins ==
    /\ DOMAIN gesture_callbacks = {registered[i].key : i \in 1..Len(registered)}
    /\ \A key \in DOMAIN gesture_callbacks :
          \E i \in RegisteredAt(key) :
              /\ \A j \in RegisteredAt(key) : j <= i
              /\ gesture_callbacks[key] = registered[i].callback

\* a key was registered twice with different callbacks, another key in
\* between: the first key holds the later callback, the other key its own
C17_Witness ==
    /\ Len(registered) = 3
    /\ registered[1].key = registered[3].key
    /\ registered[1].callback # registered[3].callback
    /\ registered[2].key # registered[1].key
    /\ registered[2].callback = registered[1].callback
    /\ gesture_callbacks[registered[1].key] = registered[3].callback
    /\ gesture_callbacks[registered[2].key] = registered[2].callback

\* the ways of joining a hand and an action into one key
QualifiedKeys(hand_type, action) ==
    {hand_type \o "." \o action, hand_type \o "_" \o action}

\* C18 as stated: for the command c resolved for the hand s, the key joining s
\* and c.action is looked up first and the key c.action after it, so a
\* callback registered under the key of (s, c.action) is the one invoked.
C18_HandActionKeyFirst ==
    (call.called /\ call.command # NoCommand) =>
        \E k \in QualifiedKeys(call.hand_type, call.command.action) :
            /\ k \in DOMAIN gesture_callbacks
                 => call.result.ran /\ call.callback = gesture_callbacks[k]
            /\ (k \notin DOMAIN gesture_callbacks
                 /\ call.command.action \in DOMAIN gesture_callbacks)
                 => call.result.ran /\ call.callback = gesture_callbacks[call.command.action]

\* C18: for the command c resolved for the gesture g on the hand s, the key
\* "<s>_<g>" joining the hand and the gesture's label is looked up first and
\* the key c.action only when the first is absent; the callback found is the
\* one invoked, and none is invoked when both are absent.
C18_HandGestureKeyFirst ==
    (call.called /\ call.command # NoCommand) =>
        LET k == call.hand_type \o "_" \o call.gesture
            a == call.command.action
        IN  /\ k \in DOMAIN gesture_callbacks
                 => call.result.ran /\ call.callback = gesture_callbacks[k]
            /\ (k \notin DOMAIN gesture_callbacks /\ a \in DOMAIN gesture_callbacks)
                 => call.result.ran /\ call.callback = gesture_callbacks[a]
            /\ (k \notin DOMAIN gesture_callbacks /\ a \notin DOMAIN gesture_callbacks)
                 => ~call.result.ran

\* THUMBS_UP on the left hand with one callback under "left_thumbs_up" and
\* another under "decrease_brightness": the first one was invoked
C18_Witness ==
    /\ call.called
    /\ call.gesture = THUMBS_UP
    /\ call.hand_type = "left"
    /\ call.command.action = "decrease_brightness"
    /\ DOMAIN gesture_callbacks = {"left_thumbs_up", "decrease_brightness"}
    /\ gesture_callbacks["left_thumbs_up"] # gesture_callbacks["decrease_brightness"]
    /\ call.result.ran
    /\ call.callback = gesture_callbacks["left_thumbs_up"]

-----------------------------------------------------------------------------
(* Properties of start, stop and the frame loop *)

Threads == 1..Len(loops)

\* the thread i is inside process_frame, a callback it called included
InProcessFrame(i) == loops[i].pc \in {"process", "callback"}

\* C15: once stop() has returned, and until start() is called again, no
\* thread of the frame loop enters process_frame and no callback begins, in
\* every interleaving of the host thread with the loop threads.
C15_NothingAfterStop ==
    [][(host.stopped /\ host'.stopped) =>
          \A i \in Threads :
              /\ loops'[i].pc = "process" => loops[i].pc = "process"
              /\ loops'[i].pc = "callback" => loops[i].pc = "callback"]_vars

\* the positions of a thread that has left the while loop
AfterLoop == {"cleanup", "release", "clear", "done", "crashed"}

\* C16: a thread whose read returned no frame leaves the loop; when it has
\* ended, the capture it read from is not open (it is released, or it had
\* never opened) and running is False, so is_running() returns False, until a
\* start() sets running again.
C16_FailedReadStopsSession ==
    \A i \in Threads :
        loops[i].failed # 0 =>
            /\ loops[i].pc \in AfterLoop
            /\ loops[i].pc \in {"done", "crashed"} =>
                  /\ ~running
                  /\ ~IsOpened(loops[i].failed)

\* without any stop(), a read of the session's capture failed and the thread
\* ended: the capture is released and the session is not running
C16_Witness ==
    /\ host = HostIdle(FALSE)
    /\ Len(loops) = 1
    /\ loops[1] = Loop("done", cap)
    /\ cap # 0
    /\ captures[cap] = "released"
    /\ ~running

\* C19: in every interleaving of start(), stop() and the steps of the loop
\* threads, at most one thread at a time is inside process_frame.
C19_OneThreadInProcessFrame ==
    Cardinality({i \in Threads : InProcessFrame(i)}) <= 1

\* some thread of the frame loop can take a frame from the camera
CanAcquireFrame == \E i \in Threads : ENABLED LoopRead(i, TRUE)

\* C20: while a callback called by the dispatcher has not returned, the frame
\* loop can still read the next frame.
C20_CallbackDoesNotBlockFrames ==
    (\E i \in Threads : loops[i].pc = "callback") => CanAcquireFrame

\* a thread of the frame loop is inside the while loop of a started session
LoopRunning == running /\ \E i \in Threads : loops[i].pc \notin AfterLoop

\* the callback that a trigger of gesture g on hand h would call with the
\* registry reg
Invoked(reg, g, h) == ExecuteGesture(reg, g, h).callback

\* C27: while the frame loop of a started session is running, no step changes
\* which callback a trigger invokes: the registry is read-only.
C27_RegistryReadOnlyInSession ==
    [][LoopRunning =>
          \A g \in GestureType, h \in HandTypes :
              Invoked(gesture_callbacks', g, h) = Invoked(gesture_callbacks, g, h)]_vars

\* the application holds a controller that it has not stopped, and the
\* threads of the frame loop have ended by themselves
LoopEndedByItself ==
    /\ app.gesture_controller
    /\ app.pc = "idle"
    /\ ~running
    /\ loops # <<>>
    /\ \A i \in Threads : loops[i].pc = "done"

\* a step that the program takes without the user calling a handler and that
\* changes what the application reports
StatusUpdate ==
    /\ \/ StopOfController
       \/ StopGestureRecognitionReturn
       \/ \E i \in 1..Len(loops) : DisplayLoop(i)
    /\ <<app.gesture_enabled, app.status>>' # <<app.gesture_enabled, app.status>>

\* C28: when the frame loop has ended by itself, the application does not keep
\* reporting a running session: gesture_enabled is False and the label shows
\* stopped, or a step of the program is about to change them.
C28_LoopEndReachesApp ==
    LoopEndedByItself =>
        \/ ~app.gesture_enabled /\ app.status = "stopped"
        \/ ENABLED StatusUpdate

-----------------------------------------------------------------------------
(* Properties of the hold state *)

C22_TrackerFollowsLabel ==
    /\ last_gesture = tick.gesture
    /\ run.first_tick => gesture_start_time = now

-----------------------------------------------------------------------------
(* Properties of one tick *)

\* C23: one call of process_frame calls one callback at most, however many
\* hands the frame has and whatever is registered; the callback of the
\* hand-and-gesture key and the callback of the action key are never both
\* called for one trigger.
C23_OneCallbackPerTick ==
    /\ Len(tick.exec.calls) <= 1
    /\ tick.exec.result.ran <=> Len(tick.exec.calls) = 1
    /\ tick.exec.result.ran => tick.exec.calls = <<tick.exec.callback>>
    /\ ~tick.exec.called => tick.exec.calls = <<>>

\* two hands both held FIST while callbacks were registered under "left_fist"
\* and under "close_all": the trigger of the left hand called the first only
C23_Witness ==
    /\ Len(tick.hands) = 2
    /\ tick.hands[1] = Hand("left", FIST)
    /\ tick.hands[2] = Hand("right", FIST)
    /\ tick.exec.called
    /\ tick.exec.command.action = "close_all"
    /\ DOMAIN gesture_callbacks = {"left_fist", "close_all"}
    /\ tick.exec.calls = <<gesture_callbacks["left_fist"]>>
    /\ gesture_callbacks["close_all"] # gesture_callbacks["left_fist"]

\* the hold state that _handle_gesture_logic gives from the current one on
\* the gesture and hand of the next tick
Transitioned ==
    LET h == HandleGestureLogic(last_gesture, gesture_start_time, executed_gestures,
                                gesture_callbacks, tick'.gesture, tick'.hand_type, now')
    IN  HoldOf(h.last_gesture, h.gesture_start_time, h.executed_gestures)

C26_FiredMeansHeld ==
    /\ last_gesture \in executed_gestures =>
           /\ last_gesture # NONE
           /\ now - gesture_start_time >= gesture_hold_duration
    /\ last_gesture = NONE => ~tick.exec.called

\* PEACE was triggered while FIST, triggered before it, is still in the set,
\* and a further frame of PEACE arrived
C26_Witness ==
    /\ last_gesture = PEACE
    /\ FIST \in executed_gestures
    /\ PEACE \in executed_gestures
    /\ tick.gesture = PEACE
    /\ ~tick.exec.called
    /\ now - gesture_start_time = gesture_hold_duration

-----------------------------------------------------------------------------
(* The tracker with one fired mark *)

\* the tracker of one current gesture, one start time and one fired mark
FiredState(g, t, fired) == [currentGesture |-> g, holdStartTime |-> t, fired |-> fired]

NoTrigger == [emitted |-> FALSE, gesture |-> NONE, hand |-> "unknown"]

Trigger(g, h) == [emitted |-> TRUE, gesture |-> g, hand |-> h]

\* its tick on gesture g of hand h at time t: a change of gesture restarts it,
\* NONE does nothing, an elapsed hold that has not fired emits the trigger
FiredTick(a, g, h, t) ==
    IF g # a.currentGesture THEN
        [state |-> FiredState(g, t, FALSE), event |-> NoTrigger]
    ELSE IF g = NONE THEN
        [state |-> a, event |-> NoTrigger]
    ELSE IF t - a.holdStartTime >= gesture_hold_duration /\ ~a.fired THEN
        [state |-> [a EXCEPT !.fired = TRUE], event |-> Trigger(g, h)]
    ELSE
        [state |-> a, event |-> NoTrigger]

\* the states of that tracker related to a hold state of the controller: the
\* same gesture, fired exactly when the gesture is in executed_gestures, and
\* the same start time while a gesture is tracked
FiredStatesOf(lg, start, executed) ==
    {FiredState(lg, t, lg \in executed) :
        t \in IF lg = NONE THEN 0..MaxTime ELSE {start}}

\* the trigger that a tick of the controller emits: its _execute_gesture call
TriggerOf(exec) ==
    IF exec.called THEN Trigger(exec.gesture, exec.hand_type) ELSE NoTrigger

\* C25: over the labels NONE, FIST, OPEN_PALM, PEACE, THUMBS_UP and
\* POINTING_UP the tracker with the set executed_gestures and the tracker with
\* one fired mark emit the same triggers, with the same gesture and hand, on
\* the same ticks: from related states every tick at a time not before the
\* last one gives the same trigger and related states again.
C25_ExecutedSetRefinesFired ==
    \A a \in FiredStatesOf(last_gesture, gesture_start_time, executed_gestures) :
        \A g \in GenericLabels, h \in HandTypes, t \in now..MaxTime :
            LET c == HandleGestureLogic(last_gesture, gesture_start_time,
                                        executed_gestures, gesture_callbacks, g, h, t)
                f == FiredTick(a, g, h, t)
            IN  /\ f.event = TriggerOf(c.exec)
                /\ f.state \in FiredStatesOf(c.last_gesture, c.gesture_start_time,
                                              c.executed_gestures)

\* the set holds two gestures, the one fired mark stands for the current one:
\* FIST was triggered, then PEACE was held and triggered on this tick
C25_Witness ==
    /\ tick.exec.called
    /\ tick.gesture = PEACE
    /\ last_gesture = PEACE
    /\ executed_gestures = {FIST, PEACE}

-----------------------------------------------------------------------------
(* Registrations of the two entry points *)

\* the registry that main of gesture_recognition.py builds on a new controller
MainRegistry == RegisterAll(EmptyRegistry, MainRegistrations)

\* C29: with the callbacks registered as main of gesture_recognition.py does,
\* a left hand that held THUMBS_UP for the hold duration runs
\* decrease_brightness, and a left hand that held POINTING_UP runs
\* min_brightness.
C29_MainLeftHandActions ==
    [][(gesture_callbacks = MainRegistry /\ TriggerStep) =>
          LET e == tick'.exec IN
          /\ (e.gesture = THUMBS_UP /\ e.hand_type = "left") =>
                e.result.ran /\ e.result.action = "decrease_brightness"
          /\ (e.gesture = POINTING_UP /\ e.hand_type = "left") =>
                e.result.ran /\ e.result.action = "min_brightness"]_vars

\* C30: after _register_gesture_callbacks, for each of the two hands and each
\* gesture with a command for that hand, _execute_gesture finds a callback,
\* under the hand-and-gesture key, and it performs the action of the command
\* resolved for that gesture and hand; no generic action took the place of a
\* hand-specific one.
C30_AppCallbackPerformsResolved ==
    gesture_callbacks = AppRegistry =>
        /\ \A h \in HandSides, g \in GestureType :
              LET e == ExecuteGesture(gesture_callbacks, g, h) IN
              e.command # NoCommand =>
                  /\ e.result.ran
                  /\ e.result.action = e.command.action
                  /\ e.callback = RegistryGet(gesture_callbacks, GestureKey(g, h))
        /\ (call.called /\ call.hand_type \in HandSides /\ call.command # NoCommand) =>
              call.result.ran /\ call.result.action = call.command.action

\* POINTING_UP of the left hand, in the left table and in the generic one,
\* was dispatched to the callback of the left table's action
C30_Witness ==
    /\ gesture_callbacks = AppRegistry
    /\ call.called
    /\ call.gesture = POINTING_UP
    /\ call.hand_type = "left"
    /\ call.command = left_hand_commands[POINTING_UP]
    /\ call.result.action = "min_brightness"
    /\ gesture_commands[POINTING_UP].action = "max_brightness"

-----------------------------------------------------------------------------
(* Properties of start() *)

\* the positions of the host thread inside start()
InStart == {"start_opened", "start_running"}

\* C31: start() on a controller that is running returns True and changes
\* nothing: its steps open no capture, start no thread and leave the flag,
\* the hold state and the registry as they are.
C31_StartWhileRunning ==
    [][/\ (host.pc = "idle" /\ running /\ host'.pc \in InStart) =>
              /\ host'.pc = "start_running"
              /\ <<running, cap, captures, loops, ctlvars>>' =
                     <<running, cap, captures, loops, ctlvars>>
       /\ (host.pc = "start_running" /\ host'.pc # "start_running") =>
              /\ host' = HostIdle(FALSE)
              /\ returned' = "True"
              /\ <<running, cap, captures, loops, ctlvars>>' =
                     <<running, cap, captures, loops, ctlvars>>]_vars

\* the host is inside a start() called while the one thread of the session
\* is about to read from the one capture
C31_Witness ==
    /\ host.pc = "start_running"
    /\ running
    /\ Len(captures) = 1
    /\ IsOpened(cap)
    /\ Len(loops) = 1
    /\ loops[1].pc = "read"

\* C32: when the capture has not opened, start() returns False, starts no
\* thread and leaves running False; and no call of start() lets an
\* exception out, it returns False instead.
C32_FailedStartReturnsFalse ==
    [][/\ returned' # "raised"
       /\ (host.pc = "start_opened" /\ host'.pc = "idle" /\ ~IsOpened(cap)) =>
              /\ returned' = "False"
              /\ loops' = loops
              /\ ~running']_vars

\* start() has returned False for a camera that did not open
C32_Witness ==
    /\ host.pc = "idle"
    /\ returned = "False"
    /\ cap # 0
    /\ captures[cap] = "unopened"
    /\ loops = <<>>
    /\ ~running

-----------------------------------------------------------------------------
(* Properties of sessions that follow one another *)

\* the threads started by an earlier start() than the last one that
\* returned True
EarlierThreads == 1..(Len(loops) - 1)

\* thread i takes a step of _display_loop
StepOf(i) == Len(loops') = Len(loops) /\ host' = host /\ loops'[i] # loops[i]

\* C33: while the session of the last start() is running, a thread of an
\* earlier session takes no frame from the capture, releases no capture and
\* does not clear the running flag.
C33_EarlierThreadLeavesSession ==
    [][\A i \in EarlierThreads :
          (running /\ StepOf(i)) =>
              /\ loops'[i].pc # "frame"
              /\ captures' = captures
              /\ running']_vars

\* C34: with one thread of the frame loop and stop() in any interleaving, the
\* thread calls isOpened() and read() only on a capture that stop() has not
\* released or replaced by None, and it never ends in an exception of its own.
C34_LoopNeverUsesStoppedCapture ==
    [][\A i \in Threads :
          (Len(loops) = 1 /\ StepOf(i)) =>
              /\ loops[i].pc \in {"isopened", "read"} =>
                    cap # 0 /\ captures[cap] # "released"
              /\ loops'[i].pc # "crashed"]_vars

\* every thread of the frame loop has ended, by its return or by an exception
LoopsEnded == loops # <<>> /\ \A i \in Threads : loops[i].pc \in {"done", "crashed"}

\* C35: when the threads of the frame loop have ended, for whatever reason,
\* and the host is outside start() and stop(), is_running() is False and the
\* capture is not open.
C35_EndedLoopMeansStopped ==
    (LoopsEnded /\ host.pc = "idle") =>
        /\ ~running
        /\ cap # 0 => ~IsOpened(cap)

-----------------------------------------------------------------------------
(* Properties of the loop of main *)

\* C36: the loop of main ends only by the quit key or by a read that gave no
\* frame; the unpacking of what process_frame returns does not end it.
C36_MainLoopKeepsProcessing ==
    main.pc = "ended" => main.left \in {"quit", "read_failed"}

-----------------------------------------------------------------------------
(* Properties of LightDevice *)

\* the sum of the reported brightness and the delta, kept inside 1..100
Limited(value) == IF value < 1 THEN 1 ELSE IF value > 100 THEN 100 ELSE value

\* C37: adjust_brightness(delta) sends no brightness outside 1..100: when the
\* device reports its brightness, the value passed to set_brightness is
\* max(1, min(100, current + delta)); when the brightness cannot be read, it
\* returns False and sends no set command.
C37_AdjustStaysInRange ==
    LET c == light.last IN
    c.method = "adjust_brightness" =>
        /\ \A k \in 1..Len(c.outcome.scene) :
              1 <= c.outcome.scene[k] /\ c.outcome.scene[k] <= 100
        /\ c.get.kind = "int" =>
              c.outcome.passed = <<Limited(c.get.value + c.argument)>>
        /\ c.get.kind # "int" =>
              /\ c.outcome.result = FALSE
              /\ c.outcome.passed = <<>>
              /\ c.outcome.sent = <<"get_prop">>

\* the device reported 0 and the delta was -20: the brightness 1 was sent
C37_Witness ==
    /\ light.last.method = "adjust_brightness"
    /\ light.last.get = GetReply("int", 0)
    /\ light.last.argument = -20
    /\ light.last.outcome.scene = <<1>>
    /\ light.last.outcome.result
    /\ light.brightness = 1

\* C38: set_brightness(b) with b outside 1..100 returns False, sends nothing
\* and leaves the cached brightness; with b inside, the cached brightness
\* becomes b when the device answers ok and stays when it does not.
C38_SetBrightnessChecked ==
    LET c == light.last IN
    c.method = "set_brightness" =>
        /\ (c.argument < 1 \/ c.argument > 100) =>
              /\ c.outcome.result = FALSE
              /\ c.outcome.sent = <<>>
              /\ light.brightness = c.before
        /\ (1 <= c.argument /\ c.argument <= 100 /\ c.set = "ok") =>
              /\ c.outcome.result = TRUE
              /\ c.outcome.scene = <<c.argument>>
              /\ light.brightness = c.argument
        /\ (1 <= c.argument /\ c.argument <= 100 /\ c.set # "ok") =>
              /\ c.outcome.result = FALSE
              /\ c.outcome.sent = <<"set_scene">>
              /\ light.brightness = c.before

\* set_brightness(0) on a lamp whose cached brightness is 50
C38_Witness ==
    /\ light.last.method = "set_brightness"
    /\ light.last.argument = 0
    /\ light.last.before = 50
    /\ light.brightness = 50
    /\ light.last.outcome.sent = <<>>
    /\ ~light.last.outcome.result

====
